---- MODULE Spec2Model ----
(***************************************************************************)
(* Model of main(config, tr_stream, dev_stream, use_bokeh) of the          *)
(* acoustic_punctuation training script (src/__init__.py).                 *)
(*                                                                         *)
(* main is one straight-line function.  The state is the set of local      *)
(* names it has bound so far, the values of the locals the properties are  *)
(* about (cost, cg, training_model, extensions, algorithm, main_loop) and  *)
(* the position in the function.  One action per statement group.  Every   *)
(* call into the framework either returns or raises; main has no           *)
(* try/except, so a raise ends the function.                               *)
(***************************************************************************)
EXTENDS Integers, Sequences, FiniteSets, TLC

VARIABLES config, use_bokeh, BOKEH_AVAILABLE, pc, defined, cost, cg,
          initialized, training_model, extensions, algorithm, main_loop,
          runCount, steps, failedAt, exc

vars == <<config, use_bokeh, BOKEH_AVAILABLE, pc, defined, cost, cg,
          initialized, training_model, extensions, algorithm, main_loop,
          runCount, steps, failedAt, exc>>

(***************************************************************************)
(* Bounds of the configurations explored.                                  *)
(***************************************************************************)
MaxHookSamples == 2
MaxFreq == 2

(***************************************************************************)
(* Numeric thresholds of the source.  dropout is counted in tenths, so     *)
(* the 1.0 of line 95 is 10; weight_noise_ff is counted in hundredths.     *)
(***************************************************************************)
DropoutOff == 10
NoiseOff == 0
MinHookSamples == 1

InputValues == {"words", "audio", "phonemes"}
DropoutValues == {5, 10, 12}
NoiseValues == {0, 3}
F1Values == {"None", "dev.out"}
ReloadValues == {"False", "0", "True"}
SavetoValues == {"model_dir", "model_dir2"}

\* The strings of ReloadValues and F1Values denote the Python values False,
\* 0, True and None, "dev.out".  Truthy is Python's truth value of them.
Truthy(v) == v \notin {"False", "None", "0", ""}

ConfigSpace ==
    [input : InputValues,
     dropout : DropoutValues,
     weight_noise_ff : NoiseValues,
     hook_samples : 0..MaxHookSamples,
     sampling_freq : 1..MaxFreq,
     f1_validation : F1Values,
     f1_val_freq : 1..MaxFreq,
     normalized_f1 : BOOLEAN,
     reload : ReloadValues,
     saveto : SavetoValues]

(***************************************************************************)
(* Values.  A symbolic variable is its name and the regularizations that   *)
(* have been applied on the way to it; a computation graph is its output   *)
(* variable and its parameters (shared variables, which graph              *)
(* replacement keeps).                                                     *)
(***************************************************************************)
NoVar == [name |-> "none", dropout |-> FALSE, noise |-> FALSE]
NoGraph == [output |-> NoVar, parameters |-> "none"]
NoModel == [output |-> NoVar]
NoAlgorithm == [cost |-> NoVar, parameters |-> "none"]
NoLoop == [model |-> NoModel, algorithm |-> NoAlgorithm,
           data_stream |-> "none", extensions |-> <<>>]

Ext(kind, stream, freq, path, model, variable, normalize) ==
    [kind |-> kind, data_stream |-> stream, every_n_batches |-> freq,
     path |-> path, model |-> model, variable |-> variable,
     normalize |-> normalize]

ComputationGraph(v) == [output |-> v, parameters |-> "enc_dec_params"]

apply_dropout(g) == [g EXCEPT !.output.dropout = TRUE]

apply_noise(g) == [g EXCEPT !.output.noise = TRUE]

Init ==
    /\ config \in ConfigSpace
    /\ use_bokeh \in BOOLEAN
    /\ BOKEH_AVAILABLE \in BOOLEAN
    /\ pc = "start"
    /\ defined = IF BOKEH_AVAILABLE THEN {"Plot"} ELSE {}
    /\ cost = NoVar
    /\ cg = NoGraph
    /\ initialized = FALSE
    /\ training_model = NoModel
    /\ extensions = <<>>
    /\ algorithm = NoAlgorithm
    /\ main_loop = NoLoop
    /\ runCount = 0
    /\ steps = <<>>
    /\ failedAt = "none"
    /\ exc = "none"

\* Mutation: the plot extension is appended after MainLoop is constructed.
StepOrder_PlotAfterLoop ==
    <<"start", "graph", "init", "dropout", "noise", "print", "model",
      "extensions", "sampling", "sampler", "f1", "reload", "algorithm",
      "mainloop", "plot", "run", "done">>

\* Mutation: the reload extension is appended before the F1 validator.
StepOrder_ReloadFirst ==
    <<"start", "graph", "init", "dropout", "noise", "print", "model",
      "extensions", "sampling", "sampler", "reload", "f1", "plot",
      "algorithm", "mainloop", "run", "done">>

\* The order of the statement groups of main.
StepOrder ==
    <<"start", "graph", "init", "dropout", "noise", "print", "model",
      "extensions", "sampling", "sampler", "f1", "reload", "plot",
      "algorithm", "mainloop", "run", "done">>

IndexOf(s, x) == CHOOSE i \in 1..Len(s) : s[i] = x

NextPc(p) == StepOrder[IndexOf(StepOrder, p) + 1]

\* An exception leaves main: nothing after the raising statement executes.
Raise(kind) ==
    /\ pc' = "raised"
    /\ failedAt' = pc
    /\ exc' = kind
    /\ steps' = Append(steps, pc)
    /\ UNCHANGED <<config, use_bokeh, BOKEH_AVAILABLE, defined, cost, cg,
                   initialized, training_model, extensions, algorithm,
                   main_loop, runCount>>

Advance ==
    /\ pc' = NextPc(pc)
    /\ steps' = Append(steps, pc)
    /\ UNCHANGED <<config, use_bokeh, BOKEH_AVAILABLE, failedAt, exc>>

\* lines 41-74
BuildCost ==
    /\ pc = "start"
    /\ \E ok \in BOOLEAN :
        IF config.input \in {"words", "audio"}
        THEN IF ok
             THEN /\ Advance
                  /\ defined' = defined \cup {"encoder", "decoder", "cost"}
                  /\ cost' = [name |-> "decoder_cost", dropout |-> FALSE,
                              noise |-> FALSE]
                  /\ UNCHANGED <<cg, initialized, training_model, extensions,
                                 algorithm, main_loop, runCount>>
             ELSE Raise("framework")
        ELSE /\ Advance
             /\ UNCHANGED <<defined, cost, cg, initialized, training_model,
                            extensions, algorithm, main_loop, runCount>>

\* Mutation: cost is taken to be bound whatever config['input'] is.
CostBound_Always == TRUE

\* line 79: the read of the local cost
CostBound == "cost" \in defined

\* lines 78-79
CreateGraph ==
    /\ pc = "graph"
    /\ \E ok \in BOOLEAN :
        IF ~CostBound
        THEN Raise("UnboundLocalError")
        ELSE IF ok
             THEN /\ Advance
                  /\ defined' = defined \cup {"cg"}
                  /\ cg' = ComputationGraph(cost)
                  /\ UNCHANGED <<cost, initialized, training_model,
                                 extensions, algorithm, main_loop, runCount>>
             ELSE Raise("framework")

\* lines 81-92
InitializeModel ==
    /\ pc = "init"
    /\ \E ok \in BOOLEAN :
        IF ~({"encoder", "decoder"} \subseteq defined)
        THEN Raise("UnboundLocalError")
        ELSE IF ok
             THEN /\ Advance
                  /\ initialized' = TRUE
                  /\ UNCHANGED <<defined, cost, cg, training_model,
                                 extensions, algorithm, main_loop, runCount>>
             ELSE Raise("framework")

\* lines 94-99
ApplyDropout ==
    /\ pc = "dropout"
    /\ \E ok \in BOOLEAN :
        IF config.dropout < DropoutOff
        THEN IF ok
             THEN /\ Advance
                  /\ cg' = apply_dropout(cg)
                  /\ UNCHANGED <<defined, cost, initialized, training_model,
                                 extensions, algorithm, main_loop, runCount>>
             ELSE Raise("framework")
        ELSE /\ Advance
             /\ UNCHANGED <<defined, cost, cg, initialized, training_model,
                            extensions, algorithm, main_loop, runCount>>

\* lines 101-110
ApplyNoise ==
    /\ pc = "noise"
    /\ \E ok \in BOOLEAN :
        IF config.weight_noise_ff > NoiseOff
        THEN IF ok
             THEN /\ Advance
                  /\ cg' = apply_noise(cg)
                  /\ UNCHANGED <<defined, cost, initialized, training_model,
                                 extensions, algorithm, main_loop, runCount>>
             ELSE Raise("framework")
        ELSE /\ Advance
             /\ UNCHANGED <<defined, cost, cg, initialized, training_model,
                            extensions, algorithm, main_loop, runCount>>

\* lines 112-124
PrintParameters ==
    /\ pc = "print"
    /\ \E ok \in BOOLEAN :
        IF ok
        THEN /\ Advance
             /\ UNCHANGED <<defined, cost, cg, initialized, training_model,
                            extensions, algorithm, main_loop, runCount>>
        ELSE Raise("framework")

\* lines 126-128
BuildTrainingModel ==
    /\ pc = "model"
    /\ \E ok \in BOOLEAN :
        IF ok
        THEN /\ Advance
             /\ defined' = defined \cup {"training_model"}
             /\ training_model' = [output |-> cost]
             /\ UNCHANGED <<cost, cg, initialized, extensions, algorithm,
                            main_loop, runCount>>
        ELSE Raise("framework")

\* Mutation: the checkpoint is listed before the printer.
BaseExtensions_Reordered ==
    << Ext("FinishAfter", "none", 0, "none", "none", NoVar, FALSE),
       Ext("TrainingDataMonitoring", "none", 1, "none", "none", cost, FALSE),
       Ext("CheckpointNMT", "none", 0, config.saveto, "none", NoVar, FALSE),
       Ext("Printing", "none", 1, "none", "none", NoVar, FALSE) >>

\* lines 132-137
BaseExtensions ==
    << Ext("FinishAfter", "none", 0, "none", "none", NoVar, FALSE),
       Ext("TrainingDataMonitoring", "none", 1, "none", "none", cost, FALSE),
       Ext("Printing", "none", 1, "none", "none", NoVar, FALSE),
       Ext("CheckpointNMT", "none", 0, config.saveto, "none", NoVar, FALSE) >>

\* lines 130-137
InitExtensions ==
    /\ pc = "extensions"
    /\ \E ok \in BOOLEAN :
        IF ok
        THEN /\ Advance
             /\ defined' = defined \cup {"extensions"}
             /\ extensions' = BaseExtensions
             /\ UNCHANGED <<cost, cg, initialized, training_model, algorithm,
                            main_loop, runCount>>
        ELSE Raise("framework")

\* Mutation: the sampling model is built for the sampler only.
NeedsSamplingModel_SamplerOnly == config.hook_samples >= MinHookSamples

\* line 140
NeedsSamplingModel ==
    config.hook_samples >= MinHookSamples \/ config.f1_validation # "None"

\* lines 139-157
BuildSamplingModel ==
    /\ pc = "sampling"
    /\ \E ok \in BOOLEAN :
        IF NeedsSamplingModel
        THEN IF config.input \notin {"words", "audio"}
             THEN Raise("UnboundLocalError")
             ELSE IF ok
                  THEN /\ Advance
                       /\ defined' = defined \cup
                             {"sampling_representation", "generated",
                              "search_model", "samples"}
                       /\ UNCHANGED <<cost, cg, initialized, training_model,
                                      extensions, algorithm, main_loop,
                                      runCount>>
                  ELSE Raise("framework")
        ELSE /\ Advance
             /\ UNCHANGED <<defined, cost, cg, initialized, training_model,
                            extensions, algorithm, main_loop, runCount>>

\* Mutation: strict comparison.
WantsSampler_Strict == config.hook_samples > MinHookSamples

\* line 160
WantsSampler == config.hook_samples >= MinHookSamples

\* lines 163-167
NewSampler ==
    Ext("Sampler", "tr_stream", config.sampling_freq, "none", "search_model",
        NoVar, FALSE)

\* lines 159-167
AddSampler ==
    /\ pc = "sampler"
    /\ \E ok \in BOOLEAN :
        IF WantsSampler
        THEN IF "search_model" \notin defined
             THEN Raise("UnboundLocalError")
             ELSE IF ok
                  THEN /\ Advance
                       /\ extensions' = Append(extensions, NewSampler)
                       /\ UNCHANGED <<defined, cost, cg, initialized,
                                      training_model, algorithm, main_loop,
                                      runCount>>
                  ELSE Raise("framework")
        ELSE /\ Advance
             /\ UNCHANGED <<defined, cost, cg, initialized, training_model,
                            extensions, algorithm, main_loop, runCount>>

\* line 170
WantsF1 == config.f1_validation # "None"

\* Mutation: the validator is given the sampler's frequency.
NewF1Validator_SamplingFreq ==
    Ext("F1Validator", "dev_stream", config.sampling_freq, "none",
        "search_model", [NoVar EXCEPT !.name = "samples"],
        config.normalized_f1)

\* lines 173-176
NewF1Validator ==
    Ext("F1Validator", "dev_stream", config.f1_val_freq, "none",
        "search_model", [NoVar EXCEPT !.name = "samples"],
        config.normalized_f1)

\* lines 169-176
AddF1Validator ==
    /\ pc = "f1"
    /\ \E ok \in BOOLEAN :
        IF WantsF1
        THEN IF ~({"samples", "search_model"} \subseteq defined)
             THEN Raise("UnboundLocalError")
             ELSE IF ok
                  THEN /\ Advance
                       /\ extensions' = Append(extensions, NewF1Validator)
                       /\ UNCHANGED <<defined, cost, cg, initialized,
                                      training_model, algorithm, main_loop,
                                      runCount>>
                  ELSE Raise("framework")
        ELSE /\ Advance
             /\ UNCHANGED <<defined, cost, cg, initialized, training_model,
                            extensions, algorithm, main_loop, runCount>>

\* Mutation: identity test against False instead of truth value.
WantsReload_IsNotFalse == config.reload # "False"

\* line 179
WantsReload == Truthy(config.reload)

\* line 180
NewLoadNMT ==
    Ext("LoadNMT", "none", 0, config.saveto, "none", NoVar, FALSE)

\* lines 178-180
AddReload ==
    /\ pc = "reload"
    /\ \E ok \in BOOLEAN :
        IF WantsReload
        THEN IF ok
             THEN /\ Advance
                  /\ extensions' = Append(extensions, NewLoadNMT)
                  /\ UNCHANGED <<defined, cost, cg, initialized,
                                 training_model, algorithm, main_loop,
                                 runCount>>
             ELSE Raise("framework")
        ELSE /\ Advance
             /\ UNCHANGED <<defined, cost, cg, initialized, training_model,
                            extensions, algorithm, main_loop, runCount>>

\* Mutation: the availability of the plotting package is not tested.
WantsPlot_NoImportTest == use_bokeh

\* line 183
WantsPlot == use_bokeh /\ BOKEH_AVAILABLE

\* lines 185-186
NewPlot == Ext("Plot", "none", 1, "none", "none", NoVar, FALSE)

\* lines 182-186
AddPlot ==
    /\ pc = "plot"
    /\ \E ok \in BOOLEAN :
        IF WantsPlot
        THEN IF "Plot" \notin defined
             THEN Raise("NameError")
             ELSE IF ok
                  THEN /\ Advance
                       /\ extensions' = Append(extensions, NewPlot)
                       /\ UNCHANGED <<defined, cost, cg, initialized,
                                      training_model, algorithm, main_loop,
                                      runCount>>
                  ELSE Raise("framework")
        ELSE /\ Advance
             /\ UNCHANGED <<defined, cost, cg, initialized, training_model,
                            extensions, algorithm, main_loop, runCount>>

\* lines 190-194
GradientDescent == [cost |-> cost, parameters |-> cg.parameters]

\* lines 188-194
InitAlgorithm ==
    /\ pc = "algorithm"
    /\ \E ok \in BOOLEAN :
        IF ok
        THEN /\ Advance
             /\ defined' = defined \cup {"algorithm"}
             /\ algorithm' = GradientDescent
             /\ UNCHANGED <<cost, cg, initialized, training_model,
                            extensions, main_loop, runCount>>
        ELSE Raise("framework")

\* lines 198-203
MainLoop ==
    [model |-> training_model, algorithm |-> algorithm,
     data_stream |-> "tr_stream", extensions |-> extensions]

\* lines 196-203
InitMainLoop ==
    /\ pc = "mainloop"
    /\ \E ok \in BOOLEAN :
        IF ok
        THEN /\ Advance
             /\ defined' = defined \cup {"main_loop"}
             /\ main_loop' = MainLoop
             /\ UNCHANGED <<cost, cg, initialized, training_model,
                            extensions, algorithm, runCount>>
        ELSE Raise("framework")

\* lines 205-206: the call is made, then the loop returns or raises.
Run ==
    /\ pc = "run"
    /\ \E ok \in BOOLEAN :
        /\ runCount' = runCount + 1
        /\ steps' = Append(steps, pc)
        /\ pc' = IF ok THEN NextPc(pc) ELSE "raised"
        /\ failedAt' = IF ok THEN failedAt ELSE pc
        /\ exc' = IF ok THEN exc ELSE "framework"
        /\ UNCHANGED <<config, use_bokeh, BOKEH_AVAILABLE, defined, cost, cg,
                       initialized, training_model, extensions, algorithm,
                       main_loop>>

Next ==
    \/ BuildCost
    \/ CreateGraph
    \/ InitializeModel
    \/ ApplyDropout
    \/ ApplyNoise
    \/ PrintParameters
    \/ BuildTrainingModel
    \/ InitExtensions
    \/ BuildSamplingModel
    \/ AddSampler
    \/ AddF1Validator
    \/ AddReload
    \/ AddPlot
    \/ InitAlgorithm
    \/ InitMainLoop
    \/ Run

Spec == Init /\ [][Next]_vars

(***************************************************************************)
(* Vocabulary of the properties.                                           *)
(***************************************************************************)
ValidInput == config.input \in {"words", "audio"}

LoopBuilt == "main_loop" \in defined

BaseKinds ==
    <<"FinishAfter", "TrainingDataMonitoring", "Printing", "CheckpointNMT">>

AllKinds == BaseKinds \o <<"Sampler", "F1Validator", "LoadNMT", "Plot">>

Count(s, k) == Cardinality({i \in DOMAIN s : s[i].kind = k})

Has(s, k) == \E i \in DOMAIN s : s[i].kind = k

Rank(k) == IndexOf(AllKinds, k)

\* The consumers main hands the stream st to, among the objects built so far.
StreamUsers(st) ==
    {extensions[i].kind : i \in {j \in DOMAIN extensions :
                                    extensions[j].data_stream = st}}
    \cup {main_loop.extensions[i].kind :
             i \in {j \in DOMAIN main_loop.extensions :
                       main_loop.extensions[j].data_stream = st}}
    \cup (IF main_loop.data_stream = st THEN {"MainLoop"} ELSE {})

IsPrefix(s, t) == Len(s) <= Len(t) /\ SubSeq(t, 1, Len(s)) = s

ActiveOptional ==
    (IF config.hook_samples >= 1 THEN 1 ELSE 0)
    + (IF config.f1_validation # "None" THEN 1 ELSE 0)
    + (IF Truthy(config.reload) THEN 1 ELSE 0)
    + (IF use_bokeh /\ BOKEH_AVAILABLE THEN 1 ELSE 0)

Position(x) == IndexOf(steps, x)

Passed(x) == \E i \in DOMAIN steps : steps[i] = x

\* C1: whatever the optional features, the list given to MainLoop begins
\* with FinishAfter, TrainingDataMonitoring, Printing, CheckpointNMT, in
\* that order, and each of the four occurs exactly once in the list.
C1_BaseExtensionsFirst ==
    LoopBuilt =>
        /\ ValidInput
        /\ Len(main_loop.extensions) >= 4
        /\ \A i \in 1..4 : main_loop.extensions[i].kind = BaseKinds[i]
        /\ \A i \in 1..4 : Count(main_loop.extensions, BaseKinds[i]) = 1

C1_Witness ==
    /\ LoopBuilt
    /\ Len(main_loop.extensions) = 8
    /\ main_loop.extensions[4].kind = "CheckpointNMT"

\* C2: the list given to MainLoop holds a Sampler exactly when
\* hook_samples >= 1; then it holds one, which reads tr_stream and fires
\* every sampling_freq batches.
C2_SamplerIffHookSamples ==
    LoopBuilt =>
        /\ Has(main_loop.extensions, "Sampler") <=> config.hook_samples >= 1
        /\ Count(main_loop.extensions, "Sampler") <= 1
        /\ \A i \in DOMAIN main_loop.extensions :
              main_loop.extensions[i].kind = "Sampler" =>
                 /\ main_loop.extensions[i].data_stream = "tr_stream"
                 /\ main_loop.extensions[i].every_n_batches
                       = config.sampling_freq

C2_Witness ==
    /\ LoopBuilt
    /\ config.hook_samples = 1
    /\ config.sampling_freq # config.f1_val_freq
    /\ Has(main_loop.extensions, "Sampler")

\* C3: the list given to MainLoop holds an F1Validator exactly when
\* f1_validation is not None; then it holds one, which reads dev_stream,
\* normalizes as normalized_f1 says and fires every f1_val_freq batches.
\* Nothing but the F1Validator is ever given dev_stream.
C3_F1ValidatorIffConfigured ==
    /\ StreamUsers("dev_stream") \subseteq {"F1Validator"}
    /\ config.f1_validation = "None" => StreamUsers("dev_stream") = {}
    /\ LoopBuilt =>
        /\ Has(main_loop.extensions, "F1Validator")
              <=> config.f1_validation # "None"
        /\ Count(main_loop.extensions, "F1Validator") <= 1
        /\ \A i \in DOMAIN main_loop.extensions :
              main_loop.extensions[i].kind = "F1Validator" =>
                 /\ main_loop.extensions[i].data_stream = "dev_stream"
                 /\ main_loop.extensions[i].normalize = config.normalized_f1
                 /\ main_loop.extensions[i].every_n_batches
                       = config.f1_val_freq

C3_Witness ==
    /\ LoopBuilt
    /\ config.f1_validation # "None"
    /\ config.sampling_freq # config.f1_val_freq
    /\ config.hook_samples >= 1
    /\ StreamUsers("dev_stream") = {"F1Validator"}

\* C4: the list given to MainLoop holds a LoadNMT exactly when reload is
\* truthy, and it loads from saveto, where CheckpointNMT saves.  With a
\* falsy reload the loop runs on the initialized parameters, no load
\* attached.
C4_LoadIffReload ==
    LoopBuilt =>
        /\ Has(main_loop.extensions, "LoadNMT") <=> Truthy(config.reload)
        /\ \A i \in DOMAIN main_loop.extensions :
              main_loop.extensions[i].kind = "LoadNMT" =>
                 /\ main_loop.extensions[i].path = config.saveto
                 /\ main_loop.extensions[i].path
                       = main_loop.extensions[4].path
        /\ (runCount > 0 /\ ~Truthy(config.reload)) =>
              initialized /\ ~Has(main_loop.extensions, "LoadNMT")

C4_Witness ==
    /\ runCount > 0
    /\ config.reload = "0"
    /\ ~Has(main_loop.extensions, "LoadNMT")

C4_WitnessLoad ==
    /\ LoopBuilt
    /\ config.reload = "True"
    /\ Has(main_loop.extensions, "LoadNMT")

\* C5 (state part): a completed run went through graph construction,
\* weight initialization, regularization, extension assembly and the loop
\* in that order; run() was called once, last, with the algorithm built and
\* every extension already in the list MainLoop received.
C5_StateOrder ==
    /\ runCount <= 1
    /\ runCount > 0 =>
          /\ {"algorithm", "main_loop", "cg"} \subseteq defined
          /\ initialized
          /\ main_loop.extensions = extensions
          /\ main_loop.algorithm = algorithm
          /\ steps[Len(steps)] = "run"
    /\ pc = "done" =>
          /\ runCount = 1
          /\ Position("start") < Position("graph")
          /\ Position("graph") < Position("init")
          /\ Position("init") < Position("dropout")
          /\ Position("dropout") < Position("noise")
          /\ Position("noise") < Position("extensions")
          /\ \A x \in {"sampling", "sampler", "f1", "reload", "plot"} :
                /\ Position("extensions") < Position(x)
                /\ Position(x) < Position("mainloop")
          /\ Position("algorithm") < Position("run")
          /\ Position("mainloop") < Position("run")
          /\ Position("run") = Len(steps)

\* C5 (step part): once MainLoop is constructed the extension list is not
\* touched, and run() is not called again.
C5_StepOrder ==
    /\ LoopBuilt => extensions' = extensions
    /\ runCount > 0 => runCount' = runCount

\* C5: in every run of main that completes the phases occur in the fixed
\* order build graph, initialize, regularize, assemble extensions, run;
\* run() is called exactly once, as the last step, and nothing is appended
\* to the list after MainLoop is constructed.
C5_PhasesInOrder == []C5_StateOrder /\ [][C5_StepOrder]_vars

C5_Witness ==
    /\ pc = "done"
    /\ Len(extensions) = 8
    /\ config.dropout < 10
    /\ config.weight_noise_ff > 0

\* The part of C6 about a configuration whose input is neither words nor
\* audio: nothing is built, main raises at the creation of the computation
\* graph, the first use of cost, and the loop is never started.
C6_InvalidInput ==
    (~ValidInput /\ pc \notin {"start", "graph"}) =>
        /\ pc = "raised"
        /\ failedAt = "graph"
        /\ exc = "UnboundLocalError"
        /\ defined \cap {"encoder", "decoder", "cost", "cg"} = {}
        /\ runCount = 0

\* No statement runs after a raise: the raise is recorded where it happened
\* and the function is over.
C6_Propagates ==
    /\ failedAt # "none" <=> pc = "raised"
    /\ pc = "raised" => steps[Len(steps)] = failedAt

\* C6 as stated: main catches nothing, and whenever main raises, whatever
\* the step, run() has not been invoked; an input that is neither words nor
\* audio raises at the creation of the computation graph.
C6_Original ==
    /\ C6_Propagates
    /\ pc = "raised" => runCount = 0
    /\ C6_InvalidInput

\* C6 as amended: main catches nothing; whenever a step before the call of
\* run() raises, run() is not invoked; an input that is neither words nor
\* audio raises at the creation of the computation graph.
C6_Amended ==
    /\ C6_Propagates
    /\ (pc = "raised" /\ failedAt # "run") => runCount = 0
    /\ C6_InvalidInput

C6_Witness ==
    /\ pc = "raised"
    /\ ~ValidInput
    /\ failedAt = "graph"

\* C7: the cost given to GradientDescent, Model and TrainingDataMonitoring
\* is the output of the regularized graph cg whose parameters
\* GradientDescent receives: with dropout < 1.0 it carries dropout, with
\* weight_noise_ff > 0.0 it carries weight noise, and with neither cg is
\* the graph first built from cost.
C7_RegularizedCostTrained ==
    "algorithm" \in defined =>
        /\ config.dropout < 10 <=> cg.output.dropout
        /\ config.weight_noise_ff > 0 <=> cg.output.noise
        /\ algorithm.parameters = cg.parameters
        /\ algorithm.cost = cg.output
        /\ training_model.output = cg.output
        /\ extensions[2].variable = cg.output
        /\ (config.dropout >= 10 /\ config.weight_noise_ff <= 0) =>
              cg = ComputationGraph(cost)

\* C8: the list given to MainLoop holds a Plot exactly when use_bokeh was
\* passed true and the plotting package was imported; with use_bokeh true
\* and the import failed, the plot step adds nothing and raises nothing.
C8_PlotIffAvailable ==
    /\ LoopBuilt =>
          (Has(main_loop.extensions, "Plot")
              <=> (use_bokeh /\ BOKEH_AVAILABLE))
    /\ (use_bokeh /\ ~BOKEH_AVAILABLE) =>
          /\ failedAt # "plot"
          /\ exc # "NameError"
          /\ ~Has(extensions, "Plot")

C8_Witness ==
    /\ pc = "done"
    /\ runCount = 1
    /\ use_bokeh
    /\ ~BOKEH_AVAILABLE

C8_WitnessPlot ==
    /\ LoopBuilt
    /\ Has(main_loop.extensions, "Plot")

\* C9: past the sampling step, search_model and samples are bound exactly
\* when hook_samples >= 1 or f1_validation is not None; a Sampler or an
\* F1Validator in the list implies they are bound, and with a valid input
\* no step raises for an unbound name.
C9_SamplingModelWhenNeeded ==
    /\ (Passed("sampling") /\ failedAt # "sampling") =>
          /\ "search_model" \in defined
                <=> (config.hook_samples >= 1
                        \/ config.f1_validation # "None")
          /\ "samples" \in defined <=> "search_model" \in defined
    /\ Has(extensions, "Sampler") => "search_model" \in defined
    /\ Has(extensions, "F1Validator") =>
          {"search_model", "samples"} \subseteq defined
    /\ ValidInput => exc \notin {"UnboundLocalError", "NameError"}

C9_Witness ==
    /\ Has(extensions, "F1Validator")
    /\ ~Has(extensions, "Sampler")
    /\ Passed("f1")
    /\ "samples" \in defined

C9_WitnessOff ==
    /\ pc = "done"
    /\ "search_model" \notin defined

\* C10 (state part): the list starts with the four base extensions, every
\* kind occurs at most once, the optional ones follow in the order Sampler,
\* F1Validator, LoadNMT, Plot, and the list MainLoop gets has 4 plus the
\* number of active optional features entries, between 4 and 8.
C10_StateShape ==
    /\ "extensions" \in defined =>
          /\ Len(extensions) >= 4
          /\ \A i \in 1..4 : extensions[i].kind = BaseKinds[i]
          /\ \A i, j \in DOMAIN extensions :
                i < j => Rank(extensions[i].kind) < Rank(extensions[j].kind)
    /\ LoopBuilt =>
          /\ Len(main_loop.extensions) = 4 + ActiveOptional
          /\ Len(main_loop.extensions) \in 4..8
          /\ \A i, j \in DOMAIN main_loop.extensions :
                i < j => Rank(main_loop.extensions[i].kind)
                            < Rank(main_loop.extensions[j].kind)

\* C10 (step part): the list only grows.
C10_Grows == IsPrefix(extensions, extensions')

\* C10: throughout assembly and in the list given to MainLoop the optional
\* extensions follow the four base ones in the order Sampler, F1Validator,
\* LoadNMT, Plot, each kind at most once; nothing is ever removed; the
\* final length is 4 plus the number of active optional features.
C10_OrderedGrowingList == []C10_StateShape /\ [][C10_Grows]_vars

C10_Witness ==
    /\ LoopBuilt
    /\ Len(main_loop.extensions) = 6
    /\ Has(main_loop.extensions, "F1Validator")
    /\ Has(main_loop.extensions, "LoadNMT")

====
